---- MODULE Spec2Model ----
(***************************************************************************)
(* Model of config/coldfront_auth.py: the Globus OIDC authentication       *)
(* backend (GlobusOIDCBackend).                                            *)
(*                                                                         *)
(*   SpecJwk : retrieve_matching_jwk as a function of the JWKS fetch       *)
(*             outcome and the token header.                               *)
(*   Spec    : one user's login attempts (filter_users_by_claims, then     *)
(*             create_user or update_user) against the Django account      *)
(*             store, for every claims value.                              *)
(*   SpecRace: two login attempts interleaving on the same store.          *)
(*                                                                         *)
(* Python strings are sequences of one-character strings, so that          *)
(* endswith, split and the "in" test are computed, not assumed.            *)
(***************************************************************************)
EXTENDS Integers, Sequences, FiniteSets, TLC

VARIABLES jwks_response, token, jwk_result,
          UserProfile, users, profiles, pc, claims, found, result

jwk_vars == <<jwks_response, token, jwk_result>>
auth_vars == <<UserProfile, users, profiles, pc, claims, found, result>>
vars == <<jwks_response, token, jwk_result,
          UserProfile, users, profiles, pc, claims, found, result>>

\* Python's None, for values that are otherwise strings.
None == "<None>"

\* Python truthiness of an optional atom (a kid): None and '' are falsy.
Truthy(s) == s # None /\ s # ""

(***************************************************************************)
(* Key Selector                                                            *)
(***************************************************************************)

\* Longest key list that is enumerated.
MaxKeys == 3

KeyKids == {None, "", "k1", "k2"}
KeyAlgs == {None, "RS256", "RS512"}
HeaderKids == {None, "", "k1"}
HeaderAlgs == {None, "RS512"}

\* An entry of the 'keys' list: a JSON object (a dict, whose missing 'kid' or
\* 'alg' reads as None through .get) or a JSON value that is not an object.
\* n stands for the key material and is the entry's position in the list.
KeyEntry ==
    [t : {"object"}, kid : KeyKids, alg : KeyAlgs]
      \cup [t : {"number"}, kid : {None}, alg : {None}]

\* The key lists of at most max entries.
KeyLists(max) ==
    UNION { { [i \in 1..len |->
                 [t |-> f[i].t, kid |-> f[i].kid, alg |-> f[i].alg, n |-> i]] :
              f \in [1..len -> KeyEntry] } : len \in 0..max }

\* The value under 'keys' in the fetched document.  t = "absent" is a
\* document without the member; items is only meaningful for arrays.
KeysValues(max) ==
    [t : {"array"}, truthy : {TRUE}, items : KeyLists(max) \ {<<>>}]
      \cup [t : {"array", "absent", "null"}, truthy : {FALSE}, items : {<<>>}]
      \cup [t : {"string", "object", "number"}, truthy : BOOLEAN, items : {<<>>}]

\* Outcome of requests.get / raise_for_status / response.json.
\*   RequestException : transport failure or timeout
\*   HTTPError        : non-2xx status (a RequestException subclass)
\*   ValueError       : body is not JSON
\*   json             : body parsed; doc is "object" or another JSON type
FetchOutcomes(max) ==
    [kind : {"RequestException", "HTTPError", "ValueError"},
     doc : {"none"}, keys : {[t |-> "absent", truthy |-> FALSE, items |-> <<>>]}]
      \cup [kind : {"json"}, doc : {"array", "string", "number", "null"},
            keys : {[t |-> "absent", truthy |-> FALSE, items |-> <<>>]}]
      \cup [kind : {"json"}, doc : {"object"}, keys : KeysValues(max)]

\* The token as jwt.get_unverified_header sees it.
Tokens == [decodable : {TRUE}, kid : HeaderKids, alg : HeaderAlgs]
            \cup [decodable : {FALSE}, kid : {None}, alg : {None}]

NoKey == [t |-> "none", kid |-> None, alg |-> None, n |-> 0]
NotRun == [outcome |-> "not_run", msg |-> "", key |-> NoKey]

Raise(exc, m) == [outcome |-> exc, msg |-> m, key |-> NoKey]
ReturnKey(k) == [outcome |-> "key", msg |-> "", key |-> k]

\* Mutation of KidLoop: the "kid and" guard dropped, so that a header
\* without kid matches a key without kid.
RECURSIVE KidLoopNoGuard(_, _, _)
KidLoopNoGuard(keys, kid, i) ==
    IF i > Len(keys) THEN NotRun
    ELSE IF keys[i].t # "object"
         THEN Raise("AttributeError", "get")
    ELSE IF keys[i].kid = kid
         THEN ReturnKey(keys[i])
    ELSE KidLoopNoGuard(keys, kid, i + 1)

\* for key in keys: if kid and key.get('kid') == kid: return key
\* .get on an entry that is not a dict raises AttributeError.
RECURSIVE KidLoop(_, _, _)
KidLoop(keys, kid, i) ==
    IF i > Len(keys) THEN NotRun
    ELSE IF keys[i].t # "object"
         THEN Raise("AttributeError", "get")
    ELSE IF Truthy(kid) /\ keys[i].kid = kid
         THEN ReturnKey(keys[i])
    ELSE KidLoop(keys, kid, i + 1)

\* Mutation of AlgLoop: the comparison of alg dropped.
AlgLoopAny(keys, alg, i) ==
    IF i > Len(keys)
    THEN Raise("SuspiciousOperation",
               "Could not find matching JWKS key for ID token")
    ELSE ReturnKey(keys[i])

\* for key in keys: if key.get('alg') == alg: return key
RECURSIVE AlgLoop(_, _, _)
AlgLoop(keys, alg, i) ==
    IF i > Len(keys)
    THEN Raise("SuspiciousOperation",
               "Could not find matching JWKS key for ID token")
    ELSE IF keys[i].alg = alg
         THEN ReturnKey(keys[i])
    ELSE AlgLoop(keys, alg, i + 1)

\* Mutation of SelectKey: without a kid match the first key is used,
\* however many keys there are.
SelectKeyFirstOnMiss(kv, tok) ==
    CASE kv.t = "number" -> Raise("TypeError", "not iterable")
      [] kv.t \in {"string", "object"} -> Raise("AttributeError", "get")
      [] OTHER ->
           LET byKid == KidLoop(kv.items, tok.kid, 1)
           IN  IF byKid # NotRun THEN byKid
               ELSE ReturnKey(kv.items[1])

\* The part of retrieve_matching_jwk after the header is decoded.
SelectKey(kv, tok) ==
    CASE kv.t = "number" -> Raise("TypeError", "not iterable")
      [] kv.t \in {"string", "object"} -> Raise("AttributeError", "get")
      [] OTHER ->
           LET byKid == KidLoop(kv.items, tok.kid, 1)
           IN  IF byKid # NotRun THEN byKid
               ELSE IF Len(kv.items) = 1 THEN ReturnKey(kv.items[1])
               ELSE AlgLoop(kv.items, tok.alg, 1)

retrieve_matching_jwk(resp, tok) ==
    IF resp.kind \in {"RequestException", "HTTPError"}
    THEN Raise("SuspiciousOperation",
               "Could not fetch JWKS from identity provider")
    ELSE IF resp.kind = "ValueError"
    THEN Raise("SuspiciousOperation",
               "Invalid JWKS response from identity provider")
    ELSE IF resp.doc # "object"
    THEN Raise("AttributeError", "get")
    ELSE IF ~resp.keys.truthy
    THEN Raise("SuspiciousOperation", "JWKS contains no keys")
    ELSE IF ~tok.decodable
    THEN Raise("SuspiciousOperation", "Could not decode ID token header")
    ELSE SelectKey(resp.keys, tok)


(***************************************************************************)
(* Identity Mapper: strings and claims                                     *)
(***************************************************************************)

\* None for values that are otherwise character sequences.
NoneS == <<"<None>">>

\* Python truthiness of an optional str: None and '' are falsy.
TruthyS(s) == s # NoneS /\ s # <<>>

\* s.endswith(suffix)
EndsWith(s, suffix) ==
    /\ Len(s) >= Len(suffix)
    /\ SubSeq(s, Len(s) - Len(suffix) + 1, Len(s)) = suffix

\* ch in s
Contains(s, ch) == \E i \in 1..Len(s) : s[i] = ch

\* Index of the first occurrence of ch in s (ch occurs in s).
FirstIndex(s, ch) ==
    CHOOSE i \in 1..Len(s) : s[i] = ch /\ \A j \in 1..(i - 1) : s[j] # ch

\* s.split(ch)[0]
SplitHead(s, ch) ==
    IF Contains(s, ch) THEN SubSeq(s, 1, FirstIndex(s, ch) - 1) ELSE s

\* s.split(ch, 1)
SplitOnce(s, ch) ==
    IF Contains(s, ch)
    THEN <<SubSeq(s, 1, FirstIndex(s, ch) - 1),
           SubSeq(s, FirstIndex(s, ch) + 1, Len(s))>>
    ELSE <<s>>

MIT_SUFFIX == <<"@", "m", "i", "t", ".", "e", "d", "u">>

\* Values of an identity's 'username' ('' is also what a missing member
\* reads as): MIT EPPNs, other providers, and near misses of the suffix.
AbcMit == <<"a", "b", "c">> \o MIT_SUFFIX
XyMit == <<"x", "y">> \o MIT_SUFFIX
TwoAtMit == <<"a", "@", "b">> \o MIT_SUFFIX
AbcOther == <<"a", "b", "c", "@", "x", ".", "i", "o">>
MitInside == <<"a", "b", "c">> \o MIT_SUFFIX \o <<".", "i", "o">>
IdentityNames == {<<>>, AbcMit, TwoAtMit, MitInside}

\* Longest identity_set that is enumerated.
MaxIdentities == 2

IdentitySets ==
    UNION { [1..len -> [username : IdentityNames]] : len \in 0..MaxIdentities }

Email1 == <<"e", "@", "x">>
Email2 == <<"o", "@", "x">>

\* The other members of a claims value: preferred_username, username,
\* email and name (NoneS when missing), given_name and family_name ('' when
\* missing).
ClaimVariants ==
    { [preferred_username |-> NoneS, username |-> NoneS, email |-> NoneS,
       given_name |-> <<>>, family_name |-> <<>>, name |-> NoneS],
      [preferred_username |-> NoneS, username |-> NoneS, email |-> Email1,
       given_name |-> <<"A">>, family_name |-> <<"L">>,
       name |-> <<"Z", " ", "Z">>],
      [preferred_username |-> NoneS, username |-> XyMit, email |-> Email1,
       given_name |-> <<>>, family_name |-> <<"L">>,
       name |-> <<"B", " ", "C", " ", "D">>],
      [preferred_username |-> AbcOther, username |-> NoneS, email |-> NoneS,
       given_name |-> <<>>, family_name |-> <<>>, name |-> <<"B">>] }

\* A claims value.  identity_set is [] when the member is missing.
MakeClaims(ids, v) ==
    [identity_set |-> ids, preferred_username |-> v.preferred_username,
     username |-> v.username, email |-> v.email, given_name |-> v.given_name,
     family_name |-> v.family_name, name |-> v.name]

AllClaims == { MakeClaims(ids, v) : ids \in IdentitySets, v \in ClaimVariants }

\* claims.get(key, default) for the optional members
GetOr(value, default) == IF value = NoneS THEN default ELSE value

RECURSIVE FirstMit(_, _)
FirstMit(identity_set, i) ==
    IF i > Len(identity_set) THEN NoneS
    ELSE IF EndsWith(identity_set[i].username, MIT_SUFFIX)
         THEN identity_set[i].username
    ELSE FirstMit(identity_set, i + 1)

extract_mit_eppn(c) ==
    LET eppn == FirstMit(c.identity_set, 1)
    IN  IF ~TruthyS(eppn)
        THEN GetOr(c.preferred_username, c.username)
        ELSE eppn

\* Mutation of validate_mit_identity: '@mit.edu' in username, for endswith.
validate_mit_identity_in(c) ==
    \E i \in 1..Len(c.identity_set) :
        LET u == c.identity_set[i].username
        IN  \E k \in 0..(Len(u) - Len(MIT_SUFFIX)) :
              SubSeq(u, k + 1, k + Len(MIT_SUFFIX)) = MIT_SUFFIX

validate_mit_identity(c) ==
    \E i \in 1..Len(c.identity_set) :
        EndsWith(c.identity_set[i].username, MIT_SUFFIX)

\* Mutation of get_username_from_eppn: the part before the last '@'.
get_username_rsplit(eppn) ==
    IF TruthyS(eppn) /\ Contains(eppn, "@")
    THEN SubSeq(eppn, 1,
                (CHOOSE i \in 1..Len(eppn) :
                   eppn[i] = "@" /\ \A j \in (i + 1)..Len(eppn) : eppn[j] # "@") - 1)
    ELSE eppn

get_username_from_eppn(eppn) ==
    IF TruthyS(eppn) /\ Contains(eppn, "@")
    THEN SplitHead(eppn, "@")
    ELSE eppn

(***************************************************************************)
(* Identity Mapper: the account store and the backend's handlers           *)
(***************************************************************************)

\* A row of the Django user table; id is its position in users.
Row(id, username, email, first, last, active) ==
    [id |-> id, username |-> username, email |-> email,
     first_name |-> first, last_name |-> last, is_active |-> active]

\* Accounts that exist before any login: a deactivated account that the
\* EPPN 'abc@mit.edu' maps to, and an account that only shares an email.
LegacyAbc(id) == Row(id, <<"a", "b", "c">>, Email2, <<"O">>, <<"N">>, FALSE)
Zed(id) == Row(id, <<"z">>, Email1, <<>>, <<>>, TRUE)
InitStores == { <<>>, <<LegacyAbc(1)>>, <<Zed(1)>>, <<LegacyAbc(1), Zed(2)>> }

\* A UserProfile row (coldfront.core.user.models.UserProfile).
Profile(id, is_pi) == [user |-> id, is_pi |-> is_pi]

HasProfile(ps, id) == \E pr \in ps : pr.user = id

\* UserProfile.objects.get_or_create(user=user)
get_or_create(ps, id) ==
    IF HasProfile(ps, id) THEN ps ELSE ps \cup {Profile(id, FALSE)}

\* UserModel.objects.filter(username=...) / filter(email=...)
FilterBy(us, field, value) ==
    { us[i] : i \in { j \in 1..Len(us) : us[j][field] = value } }

Attempts == {"A", "B"}

NoUser == 0
NoResult == [op |-> "", outcome |-> "", user |-> NoUser]
Outcome(op, outcome, user) == [op |-> op, outcome |-> outcome, user |-> user]

\* What a handler leaves behind: the store and how the call ended.
Effect(us, ps, res) == [users |-> us, profiles |-> ps, result |-> res]

\* Points at which a store call of a handler can raise.
CreateFaults == {"none", "insert", "save", "profile"}
UpdateFaults == {"none", "save", "profile"}

\* first_name / last_name as create_user derives them from the claims
first_name_of(c) ==
    IF c.given_name = <<>> /\ TruthyS(c.name)
    THEN SplitOnce(c.name, " ")[1]
    ELSE c.given_name

last_name_of(c) ==
    IF c.given_name = <<>> /\ TruthyS(c.name) /\ Len(SplitOnce(c.name, " ")) > 1
    THEN SplitOnce(c.name, " ")[2]
    ELSE c.family_name

filter_users_by_claims(c, us) ==
    IF ~validate_mit_identity(c) THEN {}
    ELSE LET eppn == extract_mit_eppn(c)
             byName == IF TruthyS(eppn) /\ Contains(eppn, "@")
                       THEN FilterBy(us, "username", get_username_from_eppn(eppn))
                       ELSE {}
             byEmail == IF TruthyS(c.email)
                        THEN FilterBy(us, "email", c.email)
                        ELSE {}
         IN  IF byName # {} THEN byName
             ELSE IF byEmail # {} THEN byEmail
             ELSE {}

\* Mutation of reraise: on IntegrityError the existing account is returned.
reraise_or_get(us, ps, username, exc) ==
    IF exc = "IntegrityError"
    THEN Effect(us, ps,
                Outcome("create_user", "user",
                        (CHOOSE u \in FilterBy(us, "username", username) : TRUE).id))
    ELSE Effect(us, ps, Outcome("create_user", exc, NoUser))

\* except Exception: raise -- the store's error leaves create_user as it
\* is, with whatever was written before it.
reraise(us, ps, username, exc) ==
    Effect(us, ps, Outcome("create_user", exc, NoUser))

\* Mutation of activated: the name claims are applied as well.
activated_synced(user, c) ==
    [user EXCEPT !.is_active = TRUE,
                 !.first_name = first_name_of(c),
                 !.last_name = last_name_of(c)]

\* Mutation of activated: the object is saved as it was loaded.
activated_as_loaded(user, c) == user

\* user.is_active = True; user.save()
activated(user, c) == [user EXCEPT !.is_active = TRUE]

\* create_user(claims) against store (us, ps); up is "UserProfile is not
\* None"; fault is the store call that raises although it would otherwise
\* have succeeded, if any.  The insert of a username that exists raises
\* IntegrityError (the username column is unique).  Nothing is wrapped in
\* a transaction: rows written before a failure stay written.
create_user(c, us, ps, up, fault) ==
    IF ~validate_mit_identity(c)
    THEN Effect(us, ps, Outcome("create_user", "PermissionDenied", NoUser))
    ELSE
    LET eppn == extract_mit_eppn(c) IN
    IF ~TruthyS(eppn) \/ ~Contains(eppn, "@")
    THEN Effect(us, ps, Outcome("create_user", "SuspiciousOperation", NoUser))
    ELSE
    LET username == get_username_from_eppn(eppn)
        email == GetOr(c.email, eppn)
        id == Len(us) + 1
        inserted == Append(us, Row(id, username, email, <<>>, <<>>, TRUE))
        saved == Append(us, Row(id, username, email,
                                first_name_of(c), last_name_of(c), TRUE))
    IN
    IF FilterBy(us, "username", username) # {}
    THEN reraise(us, ps, username, "IntegrityError")
    ELSE IF fault = "insert"
    THEN reraise(us, ps, username, "DatabaseError")
    ELSE IF fault = "save"
    THEN reraise(inserted, ps, username, "DatabaseError")
    ELSE IF up /\ fault = "profile"
    THEN reraise(saved, ps, username, "DatabaseError")
    ELSE Effect(saved, IF up THEN get_or_create(ps, id) ELSE ps,
                Outcome("create_user", "user", id))

\* update_user(user, claims): user is the object the caller loaded, so
\* user.is_active is the value read then, and user.save() writes the
\* object's fields back to its row.  fault as for create_user.
update_user(user, c, us, ps, up, fault) ==
    IF ~validate_mit_identity(c)
    THEN Effect(us, ps, Outcome("update_user", "PermissionDenied", NoUser))
    ELSE
    LET saved == IF ~user.is_active
                 THEN [us EXCEPT ![user.id] = activated(user, c)]
                 ELSE us
    IN
    IF ~user.is_active /\ fault = "save"
    THEN Effect(us, ps, Outcome("update_user", "DatabaseError", NoUser))
    ELSE IF up /\ fault = "profile"
    THEN Effect(saved, ps, Outcome("update_user", "DatabaseError", NoUser))
    ELSE Effect(saved, IF up THEN get_or_create(ps, user.id) ELSE ps,
                Outcome("update_user", "user", user.id))

(***************************************************************************)
(* Actions                                                                 *)
(***************************************************************************)

NoClaims ==
    MakeClaims(<<>>, [preferred_username |-> NoneS, username |-> NoneS,
                      email |-> NoneS, given_name |-> <<>>,
                      family_name |-> <<>>, name |-> NoneS])

NoFetch == [kind |-> "RequestException", doc |-> "none",
            keys |-> [t |-> "absent", truthy |-> FALSE, items |-> <<>>]]
NoToken == [decodable |-> FALSE, kid |-> None, alg |-> None]

Finish(p, eff) ==
    /\ users' = eff.users
    /\ profiles' = eff.profiles
    /\ result' = [result EXCEPT ![p] = eff.result]
    /\ pc' = [pc EXCEPT ![p] = "done"]

\* The OIDC client calls retrieve_matching_jwk(token).
RetrieveMatchingJwk ==
    /\ jwk_result = NotRun
    /\ jwk_result' = retrieve_matching_jwk(jwks_response, token)
    /\ UNCHANGED <<jwks_response, token, auth_vars>>

\* A login attempt starts: the client looks the claims up.
FilterUsersByClaims(p, c) ==
    /\ pc[p] = "idle"
    /\ claims' = [claims EXCEPT ![p] = c]
    /\ found' = [found EXCEPT ![p] = filter_users_by_claims(c, users)]
    /\ result' = [result EXCEPT ![p] = NoResult]
    /\ pc' = [pc EXCEPT ![p] = "looked"]
    /\ UNCHANGED <<UserProfile, users, profiles, jwk_vars>>

\* No account was found: the client calls create_user(claims).
CreateUser(p) ==
    /\ pc[p] = "looked"
    /\ found[p] = {}
    /\ \E fault \in CreateFaults :
         Finish(p, create_user(claims[p], users, profiles, UserProfile, fault))
    /\ UNCHANGED <<UserProfile, claims, found, jwk_vars>>

\* One account was found: the client calls update_user(user, claims) with
\* the object it loaded during the lookup.  (When several are found the
\* client rejects the login itself and the backend is not called again.)
UpdateUser(p) ==
    /\ pc[p] = "looked"
    /\ Cardinality(found[p]) = 1
    /\ \E user \in found[p], fault \in UpdateFaults :
         Finish(p, update_user(user, claims[p], users, profiles,
                               UserProfile, fault))
    /\ UNCHANGED <<UserProfile, claims, found, jwk_vars>>

\* update_user called on an account that was just loaded, with any claims.
UpdateUserOn(p, c, i) ==
    /\ pc[p] = "idle"
    /\ i \in 1..Len(users)
    /\ claims' = [claims EXCEPT ![p] = c]
    /\ found' = [found EXCEPT ![p] = {users[i]}]
    /\ \E fault \in UpdateFaults :
         Finish(p, update_user(users[i], c, users, profiles, UserProfile, fault))
    /\ UNCHANGED <<UserProfile, jwk_vars>>

\* The call has returned or raised; the client is ready for the next login.
Return(p) ==
    /\ pc[p] = "done"
    /\ pc' = [pc EXCEPT ![p] = "idle"]
    /\ found' = [found EXCEPT ![p] = {}]
    /\ result' = [result EXCEPT ![p] = NoResult]
    /\ UNCHANGED <<UserProfile, users, profiles, claims, jwk_vars>>

\* An administrator deactivates an account.
Deactivate(i) ==
    /\ i \in 1..Len(users)
    /\ users[i].is_active
    /\ users' = [users EXCEPT ![i].is_active = FALSE]
    /\ UNCHANGED <<UserProfile, profiles, pc, claims, found, result, jwk_vars>>

(***************************************************************************)
(* Specifications                                                          *)
(***************************************************************************)

AuthIdle ==
    /\ pc = [p \in Attempts |-> "idle"]
    /\ found = [p \in Attempts |-> {}]
    /\ result = [p \in Attempts |-> NoResult]

JwkIdle ==
    /\ jwks_response = NoFetch
    /\ token = NoToken
    /\ jwk_result = NotRun

InitStore ==
    /\ UserProfile \in BOOLEAN
    /\ users \in InitStores
    /\ profiles \in { ps \in SUBSET { Profile(i, TRUE) : i \in 1..Len(users) } :
                        \A pr \in ps : users[pr.user].username = <<"a", "b", "c">> }

\* SpecJwk: one key selection for every fetch outcome and token header.
InitJwk ==
    /\ jwks_response \in FetchOutcomes(MaxKeys)
    /\ token \in Tokens
    /\ jwk_result = NotRun
    /\ UserProfile = TRUE
    /\ users = <<>>
    /\ profiles = {}
    /\ claims = [p \in Attempts |-> NoClaims]
    /\ AuthIdle

NextJwk == RetrieveMatchingJwk

SpecJwk == InitJwk /\ [][NextJwk]_vars

\* Spec: one user logging in again and again with the same claims, for
\* every claims value and initial store, while accounts get deactivated.
Init ==
    /\ JwkIdle
    /\ InitStore
    /\ claims \in { [p \in Attempts |-> IF p = "A" THEN c ELSE NoClaims] :
                     c \in AllClaims }
    /\ AuthIdle

Next ==
    \/ FilterUsersByClaims("A", claims["A"])
    \/ CreateUser("A")
    \/ UpdateUser("A")
    \/ \E i \in 1..Len(users) : UpdateUserOn("A", claims["A"], i)
    \/ Return("A")
    \/ \E i \in 1..Len(users) : Deactivate(i)

Spec == Init /\ [][Next]_vars

\* SpecRace: two login attempts at once.
RaceVariant(email) ==
    [preferred_username |-> NoneS, username |-> NoneS, email |-> email,
     given_name |-> <<"A">>, family_name |-> <<"L">>, name |-> NoneS]
RaceClaims ==
    { MakeClaims(<<[username |-> AbcOther], [username |-> AbcMit]>>,
                 RaceVariant(Email1)),
      MakeClaims(<<[username |-> XyMit]>>, RaceVariant(Email1)) }

InitRace ==
    /\ JwkIdle
    /\ UserProfile = TRUE
    /\ users \in {<<>>, <<Zed(1)>>}
    /\ profiles = {}
    /\ claims = [p \in Attempts |-> NoClaims]
    /\ AuthIdle

NextRace ==
    \/ \E p \in Attempts, c \in RaceClaims : FilterUsersByClaims(p, c)
    \/ \E p \in Attempts : CreateUser(p)
    \/ \E p \in Attempts : UpdateUser(p)
    \/ \E p \in Attempts : Return(p)
    \/ \E i \in 1..Len(users) : Deactivate(i)

SpecRace == InitRace /\ [][NextRace]_vars

(***************************************************************************)
(* Key Selector: properties (SpecJwk)                                      *)
(***************************************************************************)

Ran == jwk_result # NotRun
Keys == jwks_response.keys.items
Returned == jwk_result.outcome = "key"

\* The fetch succeeded with a non-empty list of key objects and the token
\* header decodes.
KeySetFetched ==
    /\ jwks_response.kind = "json"
    /\ jwks_response.doc = "object"
    /\ jwks_response.keys.t = "array"
    /\ Keys # <<>>
    /\ \A i \in 1..Len(Keys) : Keys[i].t = "object"
    /\ token.decodable

KidMatches == { i \in 1..Len(Keys) : Keys[i].kid = token.kid }
AlgMatches == { i \in 1..Len(Keys) : Keys[i].alg = token.alg }
Least(S) == CHOOSE i \in S : \A j \in S : i <= j

\* C2 as stated: with a key set fetched and a header whose kid is present
\* and equal to some key's kid, the first key in key-set order with that kid
\* is returned, whatever its alg; a header without kid is never matched by
\* kid, so with several keys the key returned for it is chosen by alg.
C2_KidMatchReturned ==
    (Ran /\ KeySetFetched) =>
        /\ (token.kid # None /\ KidMatches # {}) =>
               jwk_result = ReturnKey(Keys[Least(KidMatches)])
        /\ (token.kid = None /\ Len(Keys) > 1 /\ Returned) =>
               jwk_result.key.alg = token.alg

\* C2 amended: the same for a header whose kid is present and not the empty
\* string.
C2_NonEmptyKidMatchReturned ==
    (Ran /\ KeySetFetched) =>
        /\ (token.kid # None /\ token.kid # "" /\ KidMatches # {}) =>
               jwk_result = ReturnKey(Keys[Least(KidMatches)])
        /\ (token.kid = None /\ Len(Keys) > 1 /\ Returned) =>
               jwk_result.key.alg = token.alg

\* C2 witness: the second and third of three keys carry the header's kid
\* and another alg than the header's, the first carries the header's alg,
\* and the second is returned.
C2_Witness ==
    /\ Ran /\ KeySetFetched
    /\ Len(Keys) = 3
    /\ token.kid = "k1" /\ KidMatches = {2, 3}
    /\ AlgMatches = {1}
    /\ jwk_result = ReturnKey(Keys[2])

FetchUnusable ==
    \/ jwks_response.kind # "json"
    \/ jwks_response.doc # "object"
    \/ jwks_response.keys.t # "array"
    \/ Keys = <<>>
    \/ \E i \in 1..Len(Keys) : Keys[i].t # "object"

\* C4: every unusable fetch ends with SuspiciousOperation and no key.
C4_UnusableFetchRejected ==
    (Ran /\ FetchUnusable) =>
        /\ jwk_result.outcome = "SuspiciousOperation"
        /\ jwk_result.key = NoKey

\* C5 as stated: a key whose alg differs from the header's is returned only
\* when its kid equals the header's present kid.
C5_BypassOnlyOnKidMatch ==
    (Ran /\ Returned /\ jwk_result.key.alg # token.alg) =>
        (token.kid # None /\ jwk_result.key.kid = token.kid)

\* C5 amended: a key whose alg differs from the header's is returned only
\* when its kid equals the header's present kid or it is the only key of
\* the key set.
C5_BypassOnKidMatchOrSingleKey ==
    (Ran /\ Returned /\ jwk_result.key.alg # token.alg) =>
        \/ (token.kid # None /\ jwk_result.key.kid = token.kid)
        \/ Len(Keys) = 1

\* C5 witness: of two keys the second is returned by kid although its alg
\* differs from the header's and the first key's alg equals it.
C5_Witness ==
    /\ Ran /\ KeySetFetched
    /\ Len(Keys) = 2
    /\ Keys[1].alg = token.alg /\ Keys[1].kid # token.kid
    /\ Keys[2].alg # token.alg /\ Keys[2].kid = token.kid
    /\ jwk_result = ReturnKey(Keys[2])

(***************************************************************************)
(* Identity Mapper: properties (Spec, SpecRace)                            *)
(***************************************************************************)

\* The lookup of attempt p runs in this step.
LookupStep(p) == pc[p] = "idle" /\ pc'[p] = "looked"

\* create_user or update_user of attempt p runs, start to end, in this step.
HandlerStep(p) == pc[p] # "done" /\ pc'[p] = "done"

StoreUnchanged == users' = users /\ profiles' = profiles

\* The claims' identity_set has an entry whose username ends in '@mit.edu'.
HasMitIdentity(c) ==
    \E i \in 1..Len(c.identity_set) :
        LET u == c.identity_set[i].username
        IN  /\ Len(u) >= 8
            /\ [k \in 1..8 |-> u[Len(u) - 8 + k]] = MIT_SUFFIX

\* The first identity_set entry whose username ends in '@mit.edu'.
FirstMitIdentity(c) ==
    LET mit == { i \in 1..Len(c.identity_set) :
                   HasMitIdentity([c EXCEPT !.identity_set = <<c.identity_set[i]>>]) }
    IN  c.identity_set[Least(mit)].username

\* That username with everything from its first '@' onward removed.
ExpectedUsername(c) ==
    LET u == FirstMitIdentity(c)
        at == Least({ k \in 1..Len(u) : u[k] = "@" })
    IN  [k \in 1..(at - 1) |-> u[k]]

\* C1: with claims that carry no '@mit.edu' identity the lookup finds no
\* account, create_user and update_user end with PermissionDenied, and none
\* of them changes an account or a profile.
C1_NoMitIdentityDenied ==
    [][\A p \in Attempts :
         ~HasMitIdentity(claims'[p]) =>
           /\ LookupStep(p) => (found'[p] = {} /\ StoreUnchanged)
           /\ HandlerStep(p) =>
                /\ result'[p].outcome = "PermissionDenied"
                /\ result'[p].user = NoUser
                /\ StoreUnchanged]_vars

\* C1 witness: update_user was refused for claims whose only identity has
\* '@mit.edu' inside but not at the end of its username, on a deactivated
\* account that is still deactivated.
C1_Witness ==
    /\ pc["A"] = "done"
    /\ result["A"] = Outcome("update_user", "PermissionDenied", NoUser)
    /\ claims["A"].identity_set = <<[username |-> MitInside]>>
    /\ \E u \in found["A"] : ~u.is_active /\ users[u.id] = u

\* The account is what the claims ask for: active, and with a profile when
\* the profile model is there.
FullyValid(us, ps, id) ==
    /\ id \in 1..Len(us)
    /\ us[id].is_active
    /\ UserProfile => HasProfile(ps, id)

\* C6: a handler either returns a fully valid account (for create_user, with
\* its name fields saved) or leaves the store as it was.
C6_NoPartialState ==
    [][\A p \in Attempts :
         HandlerStep(p) =>
           \/ StoreUnchanged
           \/ /\ result'[p].outcome = "user"
              /\ FullyValid(users', profiles', result'[p].user)
              /\ result'[p].op = "create_user" =>
                   /\ users'[result'[p].user].first_name = first_name_of(claims'[p])
                   /\ users'[result'[p].user].last_name = last_name_of(claims'[p])]_vars

UniqueUsernames(us) ==
    \A i, j \in 1..Len(us) : us[i].username = us[j].username => i = j

\* C7: no two accounts ever share a username and no two attempts have both
\* created the same account; an attempt whose lookup found nothing and whose
\* create_user runs when an account with its username exists ends with
\* IntegrityError and no account, leaves the store as it is, and is over
\* (no second try).
C7_RaceLoserFails ==
    [][/\ UniqueUsernames(users')
       /\ \A p, q \in Attempts :
            ( /\ p # q
              /\ result'[p].op = "create_user" /\ result'[p].outcome = "user"
              /\ result'[q].op = "create_user" /\ result'[q].outcome = "user" )
            => result'[p].user # result'[q].user
       /\ \A p \in Attempts :
            ( /\ HandlerStep(p)
              /\ pc[p] = "looked" /\ found[p] = {}
              /\ HasMitIdentity(claims[p])
              /\ \E i \in 1..Len(users) :
                   users[i].username = ExpectedUsername(claims[p]) )
            => /\ result'[p] = Outcome("create_user", "IntegrityError", NoUser)
               /\ StoreUnchanged]_vars

\* C7 witness: both attempts, with the same claims, called create_user;
\* A's created the account and B's ended with IntegrityError.
C7_Witness ==
    /\ pc["A"] = "done" /\ pc["B"] = "done"
    /\ claims["A"] = claims["B"]
    /\ found["A"] = {} /\ found["B"] = {}
    /\ result["A"].op = "create_user" /\ result["A"].outcome = "user"
    /\ result["B"] = Outcome("create_user", "IntegrityError", NoUser)
    /\ Cardinality({ i \in 1..Len(users) :
                       users[i].username = ExpectedUsername(claims["A"]) }) = 1

\* The row is the one a successful create_user writes for the claims.
CreatedBy(u, c) ==
    /\ u.username = ExpectedUsername(c)
    /\ u.email = GetOr(c.email, FirstMitIdentity(c))
    /\ u.first_name = first_name_of(c)
    /\ u.last_name = last_name_of(c)

FirstLoginStep(p) ==
    /\ HandlerStep(p)
    /\ pc[p] = "looked" /\ found[p] = {}
    /\ HasMitIdentity(claims[p])
    /\ \A i \in 1..Len(users) :
         /\ users[i].username # ExpectedUsername(claims[p])
         /\ users[i].email # claims[p].email
    /\ result'[p].outcome # "DatabaseError"

\* The step added one account, active and with the derived username, and
\* changed no other.
OneAccountCreated(p) ==
    /\ result'[p] = Outcome("create_user", "user", Len(users) + 1)
    /\ Len(users') = Len(users) + 1
    /\ \A i \in 1..Len(users) : users'[i] = users[i]
    /\ users'[Len(users') ].username = ExpectedUsername(claims[p])
    /\ users'[Len(users')].is_active

====
